---- MODULE Spec2Model ----
(***************************************************************************)
(* A model of the generative-model evaluation suite                        *)
(* (experiments/sampling/analyze_strict.py, class BasicMolecularMetrics).  *)
(*                                                                         *)
(* One instance of the suite is the state: its training smiles and its     *)
(* torchmetrics accumulators.  A MeanMetric is the pair (sum, weight) that *)
(* update(value, weight) grows by (value * weight, weight) and whose       *)
(* compute() is sum / weight; all arithmetic is exact (rationals kept as   *)
(* numerator and denominator), so float rounding is not modelled.          *)
(*                                                                         *)
(* The chemistry toolkit is an external collaborator: a generated molecule *)
(* is the record of what the toolkit answers about it (number of           *)
(* fragments, outcome of sanitization, implicit hydrogens, bond-order      *)
(* change, radicals, canonical smiles, stability).                         *)
(***************************************************************************)
EXTENDS Integers, Sequences, FiniteSets, TLC

VARIABLES
    train_smiles,     \* self.train_smiles: [present, list]
    acc,              \* the MeanMetric accumulators, name -> [sum, weight]
    max_components,   \* the MaxMetric self.max_components: [set, value]
    number_samples,   \* self.number_samples
    train_subset,     \* self.train_subset (None until a call assigns it)
    completed,        \* worker pool: the submitted tasks the workers have done
    caller_molecules, \* the molecule objects of the batch in progress, as the
                      \* caller holds them
    raised_before,    \* history: an earlier call on the instance has raised
                      \* since the last explicit metrics.reset()
    pc,               \* "idle" | "pending" | "returned" | "raised"
    inp,              \* arguments of the operation in pc
    out               \* what the operation returned or raised

vars == <<train_smiles, acc, max_components, number_samples, train_subset,
          completed, caller_molecules, raised_before,
          pc, inp, out>>

---------------------------------------------------------------------------
(* Bounds *)

\* longest batch of generated molecules handed to one call
MaxBatch == 2
\* cap on the weight the accumulators gather between two resets
MaxWeight == 3
\* longest list of raw training smiles handed to the constructor
MaxTrain == 2
\* largest value an external distance function returns
MaxDist == 1
\* longest list of fingerprints the similarity functions are given
MaxFps == 2
\* longest list split_list is given, and the largest number of chunks
MaxData == 4
MaxChunks == 3

---------------------------------------------------------------------------
(* Generic helpers *)

SeqsUpTo(S, n) == UNION {[1..k -> S] : k \in 0..n}

Range(s) == {s[i] : i \in 1..Len(s)}

\* the elements of s whose index is not in drop, in order
KeepIdx(s, drop) ==
    LET F[i \in 0..Len(s)] ==
            IF i = 0 THEN <<>>
            ELSE IF i \in drop THEN F[i - 1] ELSE Append(F[i - 1], s[i])
    IN  F[Len(s)]

\* sum of f(s[i]) over a sequence
SumOver(s, f(_)) ==
    LET F[i \in 0..Len(s)] == IF i = 0 THEN 0 ELSE F[i - 1] + f(s[i])
    IN  F[Len(s)]

CountIn(s, p(_)) == Cardinality({i \in 1..Len(s) : p(s[i])})

MaxOf(S) == CHOOSE x \in S : \A y \in S : y <= x

\* a rational num / den; den = 0 is the undefined value (nan)
Ratio(n, d) == [num |-> n, den |-> d]
IntVal(n) == Ratio(n, 1)
Defined(r) == r.den # 0
\* r = n / d for defined r and d # 0
RatioEq(r, n, d) == r.den # 0 /\ d # 0 /\ r.num * d = n * r.den
RatioLe(r, n, d) == r.den > 0 /\ d > 0 /\ r.num * d <= n * r.den
RatioGe(r, n, d) == r.den > 0 /\ d > 0 /\ r.num * d >= n * r.den

NoneValue == [is_none |-> TRUE, value |-> <<>>]
Some(v) == [is_none |-> FALSE, value |-> v]

---------------------------------------------------------------------------
(* Generated molecules *)

Smiles == {"a", "b"}

ExcNames == {"AtomValenceException", "KekulizeException", "ValueError"}

\* A generated molecule, as the external toolkit answers about it.
\*   rdkit_mol    : FALSE when mol.rdkit_mol is None
\*   adj_exc      : Chem.GetAdjacencyMatrix raises on it
\*   frags_exc    : the exception GetMolFrags raises, or "none"
\*   num_frags    : len(mol_frags)
\*   sanitize_exc : the exception Chem.SanitizeMol raises, or "none"
\*   implicit_hs  : sum of GetNumImplicitHs after sanitization
\*   bo_change2   : twice the largest |initial_adj - adj2| entry (bond orders
\*                  are multiples of 0.5)
\*   radicals     : sum of GetNumRadicalElectrons
\*   smiles       : Chem.MolToSmiles of the sanitized fragment
\*   mol_stable, at_stable, num_bonds : what check_stability returns
\*   bond_types, charges : FALSE when the attribute is None
Molecule(rd, adj, fexc, nfr, sexc, ih, bo2, rad, smi, stable) ==
    [rdkit_mol |-> rd, adj_exc |-> adj, frags_exc |-> fexc, num_frags |-> nfr,
     sanitize_exc |-> sexc, implicit_hs |-> ih, bo_change2 |-> bo2,
     radicals |-> rad, smiles |-> smi,
     mol_stable |-> stable, at_stable |-> IF stable THEN 1 ELSE 0,
     num_bonds |-> 1, bond_types |-> TRUE, charges |-> TRUE]

MolAbsent == Molecule(FALSE, FALSE, "none", 1, "none", 0, 0, 0, "a", FALSE)
MolAdjFails == Molecule(TRUE, TRUE, "none", 1, "none", 0, 0, 0, "a", FALSE)
MolDisconnected == Molecule(TRUE, FALSE, "none", 2, "none", 0, 0, 0, "a", FALSE)
MolValence ==
    Molecule(TRUE, FALSE, "none", 1, "AtomValenceException", 0, 0, 0, "a", FALSE)
MolOkA == Molecule(TRUE, FALSE, "none", 1, "none", 0, 1, 0, "a", TRUE)
MolOkB == Molecule(TRUE, FALSE, "none", 1, "none", 0, 0, 0, "b", TRUE)
\* a valid molecule that carries neither bond types nor charges
MolBare == [MolOkB EXCEPT !.bond_types = FALSE, !.charges = FALSE,
                          !.mol_stable = FALSE, !.at_stable = 0]

\* valid molecules that carry only one of the two optional fields
MolNoCharges == [MolOkA EXCEPT !.charges = FALSE]
MolNoBonds == [MolOkB EXCEPT !.bond_types = FALSE, !.mol_stable = FALSE,
                             !.at_stable = 0]

\* The molecules the whole-call specification draws its batches from: one
\* per way a molecule can leave the call (skipped, rejected without and with
\* an exception, valid) and per combination of optional fields.
CallMolecules ==
    {MolAbsent, MolDisconnected, MolValence, MolOkB, MolBare, MolNoCharges,
     MolNoBonds}

\* The molecules the validity filter is checked on: every combination of
\* the answers its checks read, and every failure it handles.
ValidityMolecules ==
    {Molecule(TRUE, FALSE, "none", nfr, sexc, ih, bo2, rad, "a", TRUE) :
        nfr \in 1..2, sexc \in {"none", "KekulizeException"},
        ih \in 0..1, bo2 \in 0..2, rad \in 0..1}
    \cup {Molecule(TRUE, FALSE, e, 1, "none", 0, 0, 0, "a", TRUE) : e \in ExcNames}
    \cup {Molecule(TRUE, FALSE, "none", 1, e, 0, 0, 0, "a", TRUE) : e \in ExcNames}
    \cup CallMolecules \cup {MolAdjFails, MolOkA}

---------------------------------------------------------------------------
(* experiments.sampling.utils: canonicalize_list *)

RawSmiles == {"a", "a'", "b", "x"}

\* canonicalize: the canonical string of a raw smiles, "invalid" when the
\* string is no molecule ("x"); "a'" is another spelling of "a"
canonicalize(s) ==
    IF s = "x" THEN "invalid" ELSE IF s = "a'" THEN "a" ELSE s

\* remove_duplicates: first occurrences in order, and the indices dropped
remove_duplicates(s) ==
    LET ids == {i \in 1..Len(s) : \E j \in 1..(i - 1) : s[j] = s[i]}
    IN  [unique_list |-> KeepIdx(s, ids), ids |-> ids]

\* canonicalize_list: canonical strings, invalid ones removed, deduplicated
\* with first-occurrence order preserved; returns (list, duplicate_ids)
canonicalize_list(smiles_list) ==
    LET c == [i \in 1..Len(smiles_list) |-> canonicalize(smiles_list[i])]
        kept == SelectSeq(c, LAMBDA x : x # "invalid")
    IN  remove_duplicates(kept)

---------------------------------------------------------------------------
(* Accumulators (torchmetrics MeanMetric / MaxMetric) *)

MeanNames ==
    {"atom_stable", "mol_stable", "validity_metric", "uniqueness", "novelty",
     "mean_components", "num_nodes_w1", "atom_types_tv", "edge_types_tv",
     "charge_w1", "valency_w1", "bond_lengths_w1", "angles_w1", "dihedrals_w1"}

EmptyMean == [sum |-> 0, weight |-> 0]
EmptyMax == [set |-> FALSE, value |-> 0]

\* MeanMetric.update(value, weight): sum += value * weight, weight += weight;
\* s is value * weight
Update(a, name, s, w) ==
    [a EXCEPT ![name] = [sum |-> @.sum + s, weight |-> @.weight + w]]

\* MeanMetric.compute(): sum / weight, undefined while weight = 0
Compute(a, name) == Ratio(a[name].sum, a[name].weight)

\* MaxMetric.update(values): nothing on an empty tensor
UpdateMax(m, values) ==
    IF Len(values) = 0 THEN m
    ELSE LET v == MaxOf(Range(values))
         IN  [set |-> TRUE, value |-> IF m.set /\ m.value > v THEN m.value ELSE v]

\* reset(): every metric of the list back to its empty state
reset(a, m) == [acc |-> [n \in MeanNames |-> EmptyMean], max_components |-> EmptyMax]

---------------------------------------------------------------------------
(* compute_validity *)

ErrorCategories ==
    {"disconnected", "implicit_hydrogens", "wrong_bo", "radicals",
     "wrong_atom_valence", "kekulization", "other", "passed"}

\* the except clauses: which counter an exception raised inside the try feeds
ExcCategory(e) ==
    IF e = "AtomValenceException" THEN "wrong_atom_valence"
    ELSE IF e = "KekulizeException" THEN "kekulization"
    ELSE "other"

\* 1 (bond-order units) in the comparison np.abs(initial_adj - adj2) < 1,
\* in half units
BoLimit2 == 2

\* np.all(np.abs(initial_adj - adj2) < 1)
BondOrderUnchanged(m) == m.bo_change2 < BoLimit2

\* the loop body with the radical check ahead of the bond-order check
CategoryMutantRadicalsFirst(m, strict) ==
    IF ~m.rdkit_mol THEN "skipped"
    ELSE IF m.adj_exc THEN "raise"
    ELSE IF m.frags_exc # "none" THEN ExcCategory(m.frags_exc)
    ELSE IF m.num_frags > 1 THEN "disconnected"
    ELSE IF m.sanitize_exc # "none" THEN ExcCategory(m.sanitize_exc)
    ELSE IF m.implicit_hs > 0 THEN "implicit_hydrogens"
    ELSE IF strict /\ m.radicals > 0 THEN "radicals"
    ELSE IF strict /\ ~BondOrderUnchanged(m) THEN "wrong_bo"
    ELSE "passed"

\* The body of the loop over generated: what happens to one molecule.
\* "skipped": rdkit_mol is None, nothing is counted.  "raise": the adjacency
\* matrix is computed before the try, so its failure leaves the method.
Category(m, strict) ==
    IF ~m.rdkit_mol THEN "skipped"
    ELSE IF m.adj_exc THEN "raise"
    ELSE IF m.frags_exc # "none" THEN ExcCategory(m.frags_exc)
    ELSE IF m.num_frags > 1 THEN "disconnected"
    ELSE IF m.sanitize_exc # "none" THEN ExcCategory(m.sanitize_exc)
    ELSE IF m.implicit_hs > 0 THEN "implicit_hydrogens"
    ELSE IF strict /\ ~BondOrderUnchanged(m) THEN "wrong_bo"
    ELSE IF strict /\ m.radicals > 0 THEN "radicals"
    ELSE "passed"

\* num_components.append(len(mol_frags)): reached when GetMolFrags returned
HasComponents(m) == m.rdkit_mol /\ ~m.adj_exc /\ m.frags_exc = "none"

\* a Counter that files the molecules without rdkit_mol under "other"
ErrorMessageMutantCountsSkipped(cats) ==
    [c \in ErrorCategories |->
        Cardinality({i \in 1..Len(cats) :
            cats[i] = c \/ (c = "other" /\ cats[i] = "skipped")})]

\* the Counter error_message after the loop
ErrorMessage(cats) ==
    [c \in ErrorCategories |-> Cardinality({i \in 1..Len(cats) : cats[i] = c})]

\* 100.0 - 100.0 * error_message["disconnected"] / len(generated)
ConnectedComponents(error_message, n) ==
    Ratio(100 * n - 100 * error_message["disconnected"], n)

\* the loop over generated: what happens to each molecule
Categories(generated, strict) ==
    [i \in 1..Len(generated) |-> Category(generated[i], strict)]

\* valid_molecules after the loop: the molecules that passed, in order
PassedMolecules(generated, cats) ==
    KeepIdx(generated, {i \in 1..Len(generated) : cats[i] # "passed"})

SmilesOf(molecules) == [i \in 1..Len(molecules) |-> molecules[i].smiles]

\* num_components after the loop
NumComponents(generated) ==
    [i \in 1..Len(SelectSeq(generated, HasComponents)) |->
        SelectSeq(generated, HasComponents)[i].num_frags]

\* compute_validity with a guard for the empty batch
ValidityExceptionMutantGuardsEmpty(generated, cats) ==
    IF \E i \in 1..Len(generated) : cats[i] = "raise" THEN "AdjacencyMatrixError"
    ELSE "none"

\* the exception that leaves compute_validity: the adjacency failure of the
\* loop, or the division by len(generated) after it
ValidityException(generated, cats) ==
    IF \E i \in 1..Len(generated) : cats[i] = "raise" THEN "AdjacencyMatrixError"
    ELSE IF Len(generated) = 0 THEN "ZeroDivisionError"
    ELSE "none"

\* lines 155-171: the values compute_validity returns, from the loop's
\* results; canon is canonicalize_list(valid_smiles)
ValidityResult(generated, cats, error_message, passed, canon) ==
    [exc |-> ValidityException(generated, cats),
     categories |-> cats,
     error_message |-> error_message,
     n_passed |-> Len(passed),
     num_components |-> NumComponents(generated),
     valid_smiles |-> canon.unique_list,
     valid_molecules |-> KeepIdx(passed, canon.ids),
     connected_components |->
        IF Len(generated) = 0 THEN Ratio(0, 0)
        ELSE ConnectedComponents(error_message, Len(generated))]

ValidityOfPassed(generated, cats, passed) ==
    ValidityResult(generated, cats, ErrorMessage(cats), passed,
                   canonicalize_list(SmilesOf(passed)))

ValidityOfCategories(generated, cats) ==
    ValidityOfPassed(generated, cats, PassedMolecules(generated, cats))

\* compute_validity(generated, strict) without its accumulator updates:
\* what it returns, or the exception that leaves it
compute_validity(generated, strict) ==
    ValidityOfCategories(generated, Categories(generated, strict))

\* the accumulator updates of compute_validity (lines 155-162)
ValidityUpdates(a, cv, n) ==
    Update(Update(a, "validity_metric", cv.n_passed, n),
           "mean_components",
           SumOver(cv.num_components, LAMBDA x : x), Len(cv.num_components))

---------------------------------------------------------------------------
(* compute_sanitize_validity, compute_uniqueness, compute_novelty *)

\* -1.0, the value reported for what was not computed
Sentinel == IntVal(-1)

\* Chem.SanitizeMol(None) raises Boost.Python.ArgumentError, which is no
\* ValueError; the sanitization failures are ValueErrors and are skipped
compute_sanitize_validity(generated) ==
    IF Len(generated) < 1 THEN [exc |-> "none", value |-> Sentinel]
    ELSE IF \E i \in 1..Len(generated) : ~generated[i].rdkit_mol
    THEN [exc |-> "ArgumentError", value |-> Ratio(0, 0)]
    ELSE [exc |-> "none",
          value |-> Ratio(CountIn(generated, LAMBDA m : m.sanitize_exc = "none"),
                          Len(generated))]

\* Chem.SanitizeMol(rdmol) works in place on the object it is given: after a
\* sanitization that succeeded the molecule has the sanitized bond orders,
\* and a further sanitization changes nothing
SanitizeInPlace(m) ==
    IF m.rdkit_mol /\ m.sanitize_exc = "none" THEN [m EXCEPT !.bo_change2 = 0]
    ELSE m

\* the objects of generated after compute_sanitize_validity: line 181 is
\* given mol.rdkit_mol itself, for every molecule the loop reaches
SanitizedByLoop(generated) ==
    [i \in 1..Len(generated) |->
        IF \A j \in 1..(i - 1) : generated[j].rdkit_mol
        THEN SanitizeInPlace(generated[i]) ELSE generated[i]]

\* (list(set(valid)), len(set(valid)) / len(valid)); the list is kept as a set
compute_uniqueness(valid) ==
    IF Len(valid) = 0
    THEN [exc |-> "ZeroDivisionError", unique |-> {}, value |-> Ratio(0, 0)]
    ELSE [exc |-> "none", unique |-> Range(valid),
          value |-> Ratio(Cardinality(Range(valid)), Len(valid))]

\* the smiles of unique that are not in self.train_smiles
Novel(unique, train) == {x \in unique : x \notin Range(train.list)}

compute_novelty(unique, train) ==
    IF ~train.present
    THEN [exc |-> "none", novel |-> {}, value |-> IntVal(1)]
    ELSE IF unique = {}
    THEN [exc |-> "ZeroDivisionError", novel |-> {}, value |-> Ratio(0, 0)]
    ELSE [exc |-> "none", novel |-> Novel(unique, train),
          value |-> Ratio(Cardinality(Novel(unique, train)), Cardinality(unique))]

---------------------------------------------------------------------------
(* evaluate *)

\* self.uniqueness.update(value=len(unique) / len(valid_smiles),
\*                        weight=len(valid_smiles))
UniquenessUpdate(a, cv) ==
    Update(a, "uniqueness", Cardinality(Range(cv.valid_smiles)), Len(cv.valid_smiles))

\* if self.train_smiles is not None:
\*     self.novelty.update(value=len(novel) / len(unique), weight=len(unique))
NoveltyUpdate(a, cv, train) ==
    IF train.present
    THEN Update(a, "novelty", Cardinality(Novel(Range(cv.valid_smiles), train)),
                Cardinality(Range(cv.valid_smiles)))
    ELSE a

EvaluateRaised(exc, a, maxc) ==
    [exc |-> exc, acc |-> a, max_components |-> maxc,
     valid_mols |-> <<>>, valid_smiles |-> <<>>,
     validity |-> Ratio(0, 0), novelty |-> Ratio(0, 0),
     uniqueness |-> Ratio(0, 0), connected_components |-> Ratio(0, 0)]

\* lines 216-258: a1 are the accumulators after compute_validity, a2 after
\* the uniqueness and novelty updates
EvaluateResult(a1, a2, m1, cv) ==
    [exc |-> "none", acc |-> a2, max_components |-> m1,
     valid_mols |-> cv.valid_molecules,
     valid_smiles |-> cv.valid_smiles,
     validity |-> Compute(a1, "validity_metric"),
     novelty |-> IF Len(cv.valid_smiles) > 0 THEN Compute(a2, "novelty")
                 ELSE IntVal(0),
     uniqueness |-> IF Len(cv.valid_smiles) > 0 THEN Compute(a2, "uniqueness")
                    ELSE IntVal(0),
     connected_components |-> cv.connected_components]

\* lines 221-235: if len(valid_smiles) > 0, the uniqueness and novelty updates
EvaluateMetrics(a1, m1, train, cv) ==
    EvaluateResult(a1,
                   IF Len(cv.valid_smiles) > 0
                   THEN NoveltyUpdate(UniquenessUpdate(a1, cv), cv, train)
                   ELSE a1,
                   m1, cv)

EvaluateValidity(a, maxc, train, n, cv) ==
    IF cv.exc # "none" THEN EvaluateRaised(cv.exc, a, maxc)
    ELSE EvaluateMetrics(ValidityUpdates(a, cv, n),
                         UpdateMax(maxc, cv.num_components), train, cv)

\* evaluate(generated, local_rank): the accumulators after it and what it
\* returns; exc is the exception compute_validity lets through
evaluate(a, maxc, train, generated) ==
    EvaluateValidity(a, maxc, train, Len(generated), compute_validity(generated, TRUE))

---------------------------------------------------------------------------
(* compute_statistics *)

\* 0.7, the sparsity level below which the angle distance is skipped, in
\* ten-thousandths
SparsityCutoff == 7000

SparsityLevels == {SparsityCutoff - 1, SparsityCutoff}

\* what the external distance functions answer in one call: the value of
\* every distance, and the sparsity level bond_types_distance reports
ExternalAnswers == [dist : 0..MaxDist, sparsity : SparsityLevels]

\* angles_w1: 0 below the cutoff, the angle distance otherwise
AnglesValue(ext) == IF ext.sparsity < SparsityCutoff THEN 0 ELSE ext.dist

\* lines 361-419: the updates of compute_statistics
StatisticsBonds(a, ext) ==
    Update(Update(Update(Update(Update(a,
        "edge_types_tv", ext.dist, 1),
        "valency_w1", ext.dist, 1),
        "bond_lengths_w1", ext.dist, 1),
        "angles_w1", AnglesValue(ext), 1),
        "dihedrals_w1", ext.dist, 1)

StatisticsCharges(a, molecules, ext) ==
    IF molecules[1].charges THEN Update(a, "charge_w1", ext.dist, 1) ELSE a

StatisticsUpdates(a, molecules, ext) ==
    IF molecules[1].bond_types
    THEN StatisticsBonds(StatisticsCharges(
            Update(Update(a, "num_nodes_w1", ext.dist, 1), "atom_types_tv", ext.dist, 1),
            molecules, ext), ext)
    ELSE StatisticsCharges(
            Update(Update(a, "num_nodes_w1", ext.dist, 1), "atom_types_tv", ext.dist, 1),
            molecules, ext)

NoStatistics ==
    [present |-> FALSE, NumNodesW1 |-> Ratio(0, 0), AtomTypesTV |-> Ratio(0, 0),
     EdgeTypesTV |-> Ratio(0, 0), ChargeW1 |-> Ratio(0, 0), ValencyW1 |-> Ratio(0, 0),
     BondLengthsW1 |-> Ratio(0, 0), AnglesW1 |-> Ratio(0, 0),
     DihedralsW1 |-> Ratio(0, 0), connected_components |-> Ratio(0, 0)]

\* a metric of statistics_log read from its accumulator whether or not the
\* molecules carry bonds
BondedMutantAlwaysComputed(a3, no_bonds, name) == Compute(a3, name)

\* a metric of statistics_log that needs bonds
Bonded(a3, no_bonds, name) == IF no_bonds THEN Sentinel ELSE Compute(a3, name)

\* lines 421-442: statistics_log from the accumulators a3
StatisticsLog(a3, no_charges, no_bonds) ==
    [acc |-> a3,
     log |-> [present |-> TRUE,
              NumNodesW1 |-> Compute(a3, "num_nodes_w1"),
              AtomTypesTV |-> Compute(a3, "atom_types_tv"),
              EdgeTypesTV |-> Bonded(a3, no_bonds, "edge_types_tv"),
              ChargeW1 |-> IF no_charges THEN Sentinel ELSE Compute(a3, "charge_w1"),
              ValencyW1 |-> Bonded(a3, no_bonds, "valency_w1"),
              BondLengthsW1 |-> Bonded(a3, no_bonds, "bond_lengths_w1"),
              AnglesW1 |-> Bonded(a3, no_bonds, "angles_w1"),
              DihedralsW1 |-> Bonded(a3, no_bonds, "dihedrals_w1"),
              connected_components |-> Ratio(0, 0)]]

\* compute_statistics(molecules, local_rank): the accumulators after it and
\* statistics_log
compute_statistics(a, molecules, ext) ==
    StatisticsLog(StatisticsUpdates(a, molecules, ext),
                  ~molecules[1].charges, ~molecules[1].bond_types)

---------------------------------------------------------------------------
(* __call__ *)

\* the loop over molecules: self.mol_stable.update(value=mol_stable) and
\* self.atom_stable.update(value=at_stable / num_bonds, weight=num_bonds)
StabilityUpdates(a, molecules) ==
    Update(Update(a, "mol_stable",
                  CountIn(molecules, LAMBDA m : m.mol_stable), Len(molecules)),
           "atom_stable",
           SumOver(molecules, LAMBDA m : m.at_stable),
           SumOver(molecules, LAMBDA m : m.num_bonds))

\* the condition with "and" in the place of "or"
KeepsMoleculesMutantAnd(return_molecules, valid_molecules) ==
    ~(~return_molecules /\ Len(valid_molecules) = 0)

\* the negation of: not return_molecules or len(valid_molecules) == 0
KeepsMolecules(return_molecules, valid_molecules) ==
    ~(~return_molecules \/ Len(valid_molecules) = 0)

NoValidityDict ==
    [validity |-> Ratio(0, 0), sanitize_validity |-> Ratio(0, 0),
     novelty |-> Ratio(0, 0), uniqueness |-> Ratio(0, 0)]

\* the state and the outcome of a call that an exception leaves
CallRaised(exc, a, m, ns, stability_dict) ==
    [acc |-> a, max_components |-> m, number_samples |-> ns,
     out |-> [exc |-> exc, stability_dict |-> stability_dict,
              validity_dict |-> NoValidityDict, statistics_dict |-> NoStatistics,
              all_generated_smiles |-> NoneValue, valid_molecules |-> NoneValue]]

StabilityDict(a1) ==
    [mol_stable |-> Compute(a1, "mol_stable"), atm_stable |-> Compute(a1, "atom_stable")]

\* lines 299-304
ValidityDict(ev, sv) ==
    [validity |-> ev.validity, sanitize_validity |-> sv.value,
     novelty |-> ev.novelty, uniqueness |-> ev.uniqueness]

\* lines 342-351: the tuple returned; after is the instance's metrics
CallReturned(after, ns, stability_dict, validity_dict, statistics_dict, keep, ev) ==
    [acc |-> after.acc, max_components |-> after.max_components,
     number_samples |-> ns,
     out |-> [exc |-> "none", stability_dict |-> stability_dict,
              validity_dict |-> validity_dict,
              statistics_dict |-> statistics_dict,
              all_generated_smiles |->
                  IF keep THEN Some(ev.valid_smiles) ELSE NoneValue,
              valid_molecules |->
                  IF keep THEN Some(ev.valid_mols) ELSE NoneValue]]

\* lines 306-338: the branch len(valid_molecules) > 0; st is what
\* compute_statistics gave.  len(self.train_smiles) raises on None, after
\* self.number_samples is set; otherwise the branch ends with self.reset()
CallWithValid(a1, train, return_molecules, ev, sv, st) ==
    IF ~train.present
    THEN CallRaised("TypeError", st.acc, ev.max_components,
                    Len(ev.valid_smiles), StabilityDict(a1))
    ELSE CallReturned(reset(st.acc, ev.max_components), Len(ev.valid_smiles),
                      StabilityDict(a1), ValidityDict(ev, sv),
                      [st.log EXCEPT !.connected_components = ev.connected_components],
                      KeepsMolecules(return_molecules, ev.valid_mols), ev)

\* lines 294-351: after evaluate (ev) and compute_sanitize_validity (sv)
CallEvaluated(a1, maxc, ns, train, return_molecules, ext, ev, sv) ==
    IF ev.exc # "none"
    THEN CallRaised(ev.exc, a1, maxc, ns, StabilityDict(a1))
    ELSE IF sv.exc # "none"
    THEN CallRaised(sv.exc, ev.acc, ev.max_components, ns, StabilityDict(a1))
    ELSE IF Len(ev.valid_mols) > 0
    THEN CallWithValid(a1, train, return_molecules, ev, sv,
                       compute_statistics(ev.acc, ev.valid_mols, ext))
    ELSE CallReturned([acc |-> ev.acc, max_components |-> ev.max_components], ns,
                      StabilityDict(a1), ValidityDict(ev, sv), NoStatistics,
                      KeepsMolecules(return_molecules, ev.valid_mols), ev)

\* lines 283-294: after the stability loop (a1)
CallStable(a1, maxc, ns, train, molecules, return_molecules, ext) ==
    CallEvaluated(a1, maxc, ns, train, return_molecules, ext,
                  evaluate(a1, maxc, train, molecules),
                  compute_sanitize_validity(molecules))

\* __call__(molecules, local_rank, return_molecules): the instance after the
\* call and the tuple it returns, or the exception that leaves it.  ext is
\* what the external distance functions answer inside compute_statistics.
call(a, maxc, ns, train, molecules, return_molecules, ext) ==
    CallStable(StabilityUpdates(a, molecules), maxc, ns, train, molecules,
               return_molecules, ext)

\* the seed of get_random_subset(self.train_smiles, self.number_samples,
\* seed=42)
SubsetSeed == 42

\* utils.get_random_subset(dataset, subset_size, seed): subset_size entries
\* of dataset at positions the seed decides, without replacement while
\* subset_size <= len(dataset)
get_random_subset(dataset, subset_size, seed) ==
    IF Len(dataset) = 0 THEN <<>>
    ELSE [k \in 1..subset_size |-> dataset[((seed + k - 1) % Len(dataset)) + 1]]

\* the reference subset sampled whatever the corpus size
TrainSubsetMutantAlwaysSamples(train, ns) ==
    get_random_subset(train.list, ns, SubsetSeed)

\* lines 312-316: self.train_subset, for ns = len(all_generated_smiles)
TrainSubset(train, ns) ==
    IF ns <= Len(train.list)
    THEN get_random_subset(train.list, ns, SubsetSeed)
    ELSE train.list

\* the objects of molecules after __call__: compute_validity sanitizes the
\* copies GetMolFrags returns (lines 105-113); compute_sanitize_validity,
\* reached when evaluate did not raise, sanitizes the objects themselves
MoleculesAfterCall(molecules) ==
    IF ValidityException(molecules, Categories(molecules, TRUE)) = "none"
    THEN SanitizedByLoop(molecules) ELSE molecules

---------------------------------------------------------------------------
(* The instance and its operations *)

NoInput == [op |-> "none"]
NoOutput == [exc |-> "none"]

\* smiles_train as handed to the constructor: None, or a list of raw smiles
TrainInputs == {NoneValue} \cup {Some(t) : t \in SeqsUpTo(RawSmiles, MaxTrain)}

\* self.train_smiles, _ = canonicalize_list(smiles_train)
TrainSmiles(smiles_train) ==
    IF smiles_train.is_none THEN [present |-> FALSE, list |-> <<>>]
    ELSE [present |-> TRUE, list |-> canonicalize_list(smiles_train.value).unique_list]

\* __init__: empty metrics, number_samples = 0
Fresh(smiles_train) ==
    /\ train_smiles = TrainSmiles(smiles_train)
    /\ acc = [n \in MeanNames |-> EmptyMean]
    /\ max_components = EmptyMax
    /\ number_samples = 0
    /\ train_subset = NoneValue
    /\ completed = {}
    /\ caller_molecules = <<>>
    /\ raised_before = FALSE

Init ==
    /\ \E t \in TrainInputs : Fresh(t)
    /\ pc = "idle"
    /\ inp = NoInput
    /\ out = NoOutput

Batches == SeqsUpTo(CallMolecules, MaxBatch)

HasPassing(molecules) ==
    \E i \in 1..Len(molecules) : Category(molecules[i], TRUE) = "passed"

\* metrics(molecules, local_rank=0, return_molecules=...)
Call(molecules, return_molecules, ext) ==
    /\ pc = "idle"
    /\ acc["mol_stable"].weight + Len(molecules) <= MaxWeight
    /\ \E r \in {call(acc, max_components, number_samples, train_smiles,
                      molecules, return_molecules, ext)} :
           /\ acc' = r.acc
           /\ max_components' = r.max_components
           /\ number_samples' = r.number_samples
           /\ train_subset' =
                IF r.out.exc = "none" /\ r.out.statistics_dict.present
                THEN Some(TrainSubset(train_smiles, r.number_samples))
                ELSE train_subset
           /\ out' = r.out
           /\ pc' = IF r.out.exc = "none" THEN "returned" ELSE "raised"
           /\ UNCHANGED raised_before
    /\ inp' = [op |-> "__call__", molecules |-> molecules,
               return_molecules |-> return_molecules, ext |-> ext]
    /\ caller_molecules' = MoleculesAfterCall(molecules)
    /\ UNCHANGED <<train_smiles, completed>>

\* metrics.compute_novelty(unique)
ComputeNovelty(unique) ==
    /\ pc = "idle"
    /\ \E r \in {compute_novelty(unique, train_smiles)} :
           /\ out' = r
           /\ pc' = IF r.exc = "none" THEN "returned" ELSE "raised"
    /\ inp' = [op |-> "compute_novelty", unique |-> unique]
    /\ UNCHANGED <<train_smiles, acc, max_components, number_samples,
                   train_subset, completed, caller_molecules, raised_before>>

\* metrics.reset()
Reset ==
    /\ pc = "idle"
    /\ acc' = reset(acc, max_components).acc
    /\ max_components' = reset(acc, max_components).max_components
    /\ raised_before' = FALSE
    /\ UNCHANGED <<train_smiles, number_samples, train_subset, completed,
                   caller_molecules, pc, inp, out>>

\* the caller takes the result (or handles the exception) and goes on
Continue ==
    /\ pc \in {"returned", "raised"}
    /\ pc' = "idle"
    /\ inp' = NoInput
    /\ out' = NoOutput
    /\ caller_molecules' = <<>>
    /\ raised_before' = (raised_before \/ pc = "raised")
    /\ UNCHANGED <<train_smiles, acc, max_components, number_samples,
                   train_subset, completed>>

\* any call of the suite on a batch
CallStep ==
    /\ pc = "idle"
    /\ \E molecules \in Batches, return_molecules \in BOOLEAN :
        \E ext \in IF HasPassing(molecules) THEN ExternalAnswers
                   ELSE {[dist |-> 0, sparsity |-> SparsityCutoff]} :
            Call(molecules, return_molecules, ext)

ComputeNoveltyStep ==
    /\ pc = "idle"
    /\ \E unique \in SUBSET Smiles : ComputeNovelty(unique)

Next ==
    \/ CallStep
    \/ ComputeNoveltyStep
    \/ Reset
    \/ Continue

Spec == Init /\ [][Next]_vars

---------------------------------------------------------------------------
(* The methods on their own, on a fresh instance: the inputs are drawn, one
   method is applied *)

InitValidity ==
    /\ Fresh(Some(<<>>))
    /\ pc = "pending"
    /\ \/ \E generated \in SeqsUpTo(ValidityMolecules, MaxBatch), strict \in BOOLEAN :
            inp = [op |-> "compute_validity", generated |-> generated,
                   strict |-> strict]
       \/ \E generated \in Batches :
            inp = [op |-> "compute_sanitize_validity", generated |-> generated]
       \/ \E molecules \in Batches, return_molecules \in BOOLEAN,
              ext \in ExternalAnswers :
            inp = [op |-> "__call__", molecules |-> molecules,
                   return_molecules |-> return_molecules, ext |-> ext]
    /\ out = NoOutput

\* metrics.compute_validity(generated, strict=...)
ComputeValidity ==
    /\ pc = "pending"
    /\ inp.op = "compute_validity"
    /\ \E cv \in {compute_validity(inp.generated, inp.strict)} :
           /\ out' = cv
           /\ pc' = IF cv.exc = "none" THEN "returned" ELSE "raised"
           /\ acc' = IF cv.exc = "none"
                     THEN ValidityUpdates(acc, cv, Len(inp.generated)) ELSE acc
           /\ max_components' = IF cv.exc = "none"
                                THEN UpdateMax(max_components, cv.num_components)
                                ELSE max_components
    /\ UNCHANGED <<train_smiles, number_samples, train_subset, completed,
                   caller_molecules, raised_before, inp>>

\* metrics.compute_sanitize_validity(generated)
ComputeSanitizeValidity ==
    /\ pc = "pending"
    /\ inp.op = "compute_sanitize_validity"
    /\ \E sv \in {compute_sanitize_validity(inp.generated)} :
           /\ out' = sv
           /\ pc' = IF sv.exc = "none" THEN "returned" ELSE "raised"
    /\ caller_molecules' = SanitizedByLoop(inp.generated)
    /\ UNCHANGED <<train_smiles, acc, max_components, number_samples,
                   train_subset, completed, raised_before, inp>>

\* metrics(molecules, local_rank=0, return_molecules=...) on the fresh
\* instance
CallFresh ==
    /\ pc = "pending"
    /\ inp.op = "__call__"
    /\ \E r \in {call(acc, max_components, number_samples, train_smiles,
                      inp.molecules, inp.return_molecules, inp.ext)} :
           /\ acc' = r.acc
           /\ max_components' = r.max_components
           /\ number_samples' = r.number_samples
           /\ train_subset' =
                IF r.out.exc = "none" /\ r.out.statistics_dict.present
                THEN Some(TrainSubset(train_smiles, r.number_samples))
                ELSE train_subset
           /\ out' = r.out
           /\ pc' = IF r.out.exc = "none" THEN "returned" ELSE "raised"
    /\ caller_molecules' = MoleculesAfterCall(inp.molecules)
    /\ UNCHANGED <<train_smiles, completed, raised_before, inp>>

NextValidity ==
    \/ ComputeValidity
    \/ ComputeSanitizeValidity
    \/ CallFresh

SpecValidity == InitValidity /\ [][NextValidity]_vars

---------------------------------------------------------------------------
(* Fingerprint similarity: get_similarity_with_train, get_diversity,
   get_bulk_diversity *)

\* fingerprints: non-empty sets of bits
FingerprintBits == {"p", "q"}
Fingerprints == (SUBSET FingerprintBits) \ {{}}

\* rdkit TanimotoSimilarity(fg1, fg2) = |fg1 & fg2| / |fg1 | fg2|, in halves
\* (the union of two fingerprints has one or two bits)
TanimotoSimilarity(fg1, fg2) ==
    (2 * Cardinality(fg1 \cap fg2)) \div Cardinality(fg1 \cup fg2)

\* utils.get_similarity(fp_pair), in halves
get_similarity(fp_pair) == TanimotoSimilarity(fp_pair[1], fp_pair[2])

\* rdkit BulkTanimotoSimilarity(fp, fps): one similarity per element of fps
BulkTanimotoSimilarity(fp, fps) ==
    [k \in 1..Len(fps) |-> TanimotoSimilarity(fp, fps[k])]

\* np.mean of a list of similarities given in halves; nan for no value
MeanOfHalves(values) ==
    Ratio(SumOver(values, LAMBDA v : v), 2 * Len(values))

\* 1 - r
OneMinus(r) == Ratio(r.den - r.num, r.den)

\* list(itertools.product(fps, self.train_fps))
FpProduct(fps, train_fps) ==
    [k \in 1..(Len(fps) * Len(train_fps)) |->
        <<fps[((k - 1) \div Len(train_fps)) + 1],
          train_fps[((k - 1) % Len(train_fps)) + 1]>>]

\* list(itertools.combinations(fps, 2)): the pairs i < j in order
FpCombinations(fps) ==
    LET F[i \in 0..Len(fps)] ==
            IF i = 0 THEN <<>>
            ELSE F[i - 1] \o [j \in 1..(Len(fps) - i) |-> <<fps[i], fps[i + j]>>]
    IN  F[Len(fps)]

\* lines 493-497: reshape the list to len(generated_smiles) rows, take the
\* maximum of every row and the mean of the maxima.  np.reshape refuses an
\* empty list with an unknown dimension, and max refuses rows of width 0.
SimilarityFromList(similarity_list, n) ==
    IF n = 0 \/ Len(similarity_list) = 0
    THEN [exc |-> "ValueError", value |-> Ratio(0, 0)]
    ELSE LET width == Len(similarity_list) \div n
             similarity_max ==
                [i \in 1..n |->
                    MaxOf({similarity_list[(i - 1) * width + j] : j \in 1..width})]
         IN  [exc |-> "none", value |-> MeanOfHalves(similarity_max)]

\* the sequential loop of lines 482-484 and of lines 503-505
MapInOrder(f(_), items) == [k \in 1..Len(items) |-> f(items[k])]

\* pool.imap(f, items) read to its end: the results in submission order,
\* whatever the order the workers completed them in
PoolImap(f(_), items, done) == [k \in 1..Len(items) |-> f(items[k])]

\* get_similarity_with_train(generated_smiles, parallel=False)
get_similarity_with_train(fps, train_fps) ==
    SimilarityFromList(MapInOrder(get_similarity, FpProduct(fps, train_fps)),
                       Len(fps))

\* get_diversity(generated_smiles, parallel=False): 1 - np.mean(similarity_list)
get_diversity(fps) ==
    [exc |-> "none",
     value |-> OneMinus(MeanOfHalves(
                  MapInOrder(get_similarity, FpCombinations(fps))))]

\* get_diversity(generated_smiles, parallel=True): similarity_list is the
\* iterator pool.imap_unordered returns; it is not read inside the with
\* block, and np.mean of the iterator object raises TypeError
get_diversity_parallel(fps) == [exc |-> "TypeError", value |-> Ratio(0, 0)]

\* fps_tmp = fps.copy(); del fps_tmp[i] compared by value instead of by index
OthersMutantByValue(fps, i) ==
    SelectSeq(fps, LAMBDA fp : fp # fps[i])

\* fps_tmp = fps.copy(); del fps_tmp[i]
Others(fps, i) == KeepIdx(fps, {i})

\* scores of get_bulk_diversity, flattened: np.mean takes the mean of all
\* entries of the len(fps) x (len(fps) - 1) array
BulkScores(fps) ==
    LET F[i \in 0..Len(fps)] ==
            IF i = 0 THEN <<>>
            ELSE F[i - 1] \o BulkTanimotoSimilarity(fps[i], Others(fps, i))
    IN  F[Len(fps)]

\* get_bulk_diversity(generated_smiles): 1 - np.mean(scores)
get_bulk_diversity(fps) ==
    [exc |-> "none", value |-> OneMinus(MeanOfHalves(BulkScores(fps)))]

FpLists == SeqsUpTo(Fingerprints, MaxFps)

\* the similarity functions on their own: the inputs are drawn, one function
\* is applied
InitSimilarity ==
    /\ Fresh(Some(<<>>))
    /\ pc = "pending"
    /\ \/ \E fps \in FpLists, train_fps \in FpLists, parallel \in BOOLEAN :
            inp = [op |-> "get_similarity_with_train", fps |-> fps,
                   train_fps |-> train_fps, parallel |-> parallel]
       \/ \E fps \in FpLists, parallel \in BOOLEAN :
            inp = [op |-> "get_diversity", fps |-> fps, train_fps |-> <<>>,
                   parallel |-> parallel]
       \/ \E fps \in FpLists :
            inp = [op |-> "get_bulk_diversity", fps |-> fps, train_fps |-> <<>>,
                   parallel |-> FALSE]
    /\ out = NoOutput

SimilarityFrame ==
    UNCHANGED <<train_smiles, acc, max_components, number_samples, train_subset,
                caller_molecules, raised_before, inp>>

\* the tasks of the pool: one per fingerprint pair
Tasks == 1..(Len(inp.fps) * Len(inp.train_fps))

\* metrics.get_similarity_with_train(smiles, parallel=False)
GetSimilaritySequential ==
    /\ pc = "pending" /\ inp.op = "get_similarity_with_train" /\ ~inp.parallel
    /\ \E r \in {get_similarity_with_train(inp.fps, inp.train_fps)} :
           /\ out' = r
           /\ pc' = IF r.exc = "none" THEN "returned" ELSE "raised"
    /\ UNCHANGED completed
    /\ SimilarityFrame

\* parallel=True: with Pool(102) as pool: pool.imap(get_similarity, fp_pair)
SubmitToPool ==
    /\ pc = "pending" /\ inp.op = "get_similarity_with_train" /\ inp.parallel
    /\ pc' = "mapping"
    /\ completed' = {}
    /\ UNCHANGED out
    /\ SimilarityFrame

\* a worker completes one of the tasks still open, in any order
WorkerCompletes ==
    /\ pc = "mapping"
    /\ \E k \in Tasks \ completed : completed' = completed \cup {k}
    /\ UNCHANGED <<pc, out>>
    /\ SimilarityFrame

\* list(pool.imap(...)) has every result; lines 493-497 aggregate them
GatherFromPool ==
    /\ pc = "mapping"
    /\ completed = Tasks
    /\ \E r \in {SimilarityFromList(
                    PoolImap(get_similarity, FpProduct(inp.fps, inp.train_fps),
                             completed),
                    Len(inp.fps))} :
           /\ out' = r
           /\ pc' = IF r.exc = "none" THEN "returned" ELSE "raised"
    /\ UNCHANGED completed
    /\ SimilarityFrame

\* metrics.get_diversity(smiles, parallel=...)
GetDiversity ==
    /\ pc = "pending" /\ inp.op = "get_diversity"
    /\ \E r \in {IF inp.parallel THEN get_diversity_parallel(inp.fps)
                 ELSE get_diversity(inp.fps)} :
           /\ out' = r
           /\ pc' = IF r.exc = "none" THEN "returned" ELSE "raised"
    /\ UNCHANGED completed
    /\ SimilarityFrame

\* metrics.get_bulk_diversity(smiles)
GetBulkDiversity ==
    /\ pc = "pending" /\ inp.op = "get_bulk_diversity"
    /\ \E r \in {get_bulk_diversity(inp.fps)} :
           /\ out' = r
           /\ pc' = "returned"
    /\ UNCHANGED completed
    /\ SimilarityFrame

NextSimilarity ==
    \/ GetSimilaritySequential
    \/ SubmitToPool
    \/ WorkerCompletes
    \/ GatherFromPool
    \/ GetDiversity
    \/ GetBulkDiversity

SpecSimilarity == InitSimilarity /\ [][NextSimilarity]_vars

---------------------------------------------------------------------------
(* docking_utils.split_list *)

SplitItems == {"x", "y"}

\* data[start:end] for 0 <= start: the slice stops at the end of the list
Slice(data, start, end) ==
    IF end > Len(data) THEN SubSeq(data, start + 1, Len(data))
    ELSE SubSeq(data, start + 1, end)

\* the extra element with the comparison i <= remainder
ChunkExtraMutantLe(i, remainder) == IF i <= remainder THEN 1 ELSE 0

\* (1 if i < remainder else 0)
ChunkExtra(i, remainder) == IF i < remainder THEN 1 ELSE 0

\* split_list(data, num_chunks): the loop over range(num_chunks); L[n] is
\* (chunks, start) after n iterations
split_list(data, num_chunks) ==
    LET chunk_size == Len(data) \div num_chunks
        remainder == Len(data) % num_chunks
        L[n \in 0..num_chunks] ==
            IF n = 0 THEN [chunks |-> <<>>, start |-> 0]
            ELSE LET chunk_end ==
                        L[n - 1].start + chunk_size + ChunkExtra(n - 1, remainder)
                 IN  [chunks |-> Append(L[n - 1].chunks,
                                        Slice(data, L[n - 1].start, chunk_end)),
                      start |-> chunk_end]
    IN  L[num_chunks].chunks

\* the inputs are drawn, split_list is applied
InitSplit ==
    /\ Fresh(Some(<<>>))
    /\ pc = "pending"
    /\ \E data \in SeqsUpTo(SplitItems, MaxData), num_chunks \in 1..MaxChunks :
           inp = [op |-> "split_list", data |-> data, num_chunks |-> num_chunks]
    /\ out = NoOutput

SplitList ==
    /\ pc = "pending" /\ inp.op = "split_list"
    /\ out' = [exc |-> "none", chunks |-> split_list(inp.data, inp.num_chunks)]
    /\ pc' = "returned"
    /\ UNCHANGED <<train_smiles, acc, max_components, number_samples,
                   train_subset, completed, caller_molecules, raised_before, inp>>

NextSplit == SplitList

SpecSplit == InitSplit /\ [][NextSplit]_vars

---------------------------------------------------------------------------
(* What the claims speak about *)

\* a top-level call has just ended (returned or raised)
CallDone == pc \in {"returned", "raised"} /\ inp.op = "__call__"
CallHasReturned == pc = "returned" /\ inp.op = "__call__"
ValidityHasReturned == pc = "returned" /\ inp.op = "compute_validity"

AllReset == acc = [n \in MeanNames |-> EmptyMean] /\ max_components = EmptyMax

\* the molecules of a batch the validity filter judges valid (strict mode)
ValidCount(molecules) == Len(PassedMolecules(molecules, Categories(molecules, TRUE)))

\* the distinct canonical strings among them
UniqueSmiles(molecules) ==
    Range(SmilesOf(PassedMolecules(molecules, Categories(molecules, TRUE))))

\* every molecule of the batch has a structural representation whose
\* adjacency matrix can be computed
AllStructured(molecules) ==
    \A i \in 1..Len(molecules) : molecules[i].rdkit_mol /\ ~molecules[i].adj_exc

---------------------------------------------------------------------------
(* C1 *)

\* C1: every top-level call that returns leaves all accumulators reset (zero
\* sum and weight), whatever the batch contained.
C1_AccumulatorsResetAfterCall == CallHasReturned => AllReset

---------------------------------------------------------------------------
(* C2 *)

\* C2: for every non-empty batch, in any call of a sequence of calls, the
\* reported validity is (molecules of that batch judged valid) / (molecules
\* of that batch), and lies in [0, 1].  Stated for the sequences in which no
\* call has raised, where it already fails.
C2_ValidityIsBatchRatio ==
    (CallHasReturned /\ Len(inp.molecules) > 0 /\ ~raised_before) =>
        /\ RatioEq(out.validity_dict.validity,
                   ValidCount(inp.molecules), Len(inp.molecules))
        /\ RatioGe(out.validity_dict.validity, 0, 1)
        /\ RatioLe(out.validity_dict.validity, 1, 1)

---------------------------------------------------------------------------
(* C3 *)

\* C3: for every batch with at least one valid molecule the reported
\* uniqueness is unique_count / valid_count, valid_count being the number of
\* molecules that passed the validity filter; it lies in (0, 1] and is below
\* 1 whenever two valid molecules share a canonical string.
C3_UniquenessOverValidCount ==
    (CallHasReturned /\ ValidCount(inp.molecules) > 0) =>
        /\ RatioEq(out.validity_dict.uniqueness,
                   Cardinality(UniqueSmiles(inp.molecules)), ValidCount(inp.molecules))
        /\ ~RatioLe(out.validity_dict.uniqueness, 0, 1)
        /\ RatioLe(out.validity_dict.uniqueness, 1, 1)

---------------------------------------------------------------------------
(* C4 *)

\* C4: for every batch with at least one valid molecule and a non-empty
\* training set the reported novelty is novel_count / unique_count, the
\* unique valid canonical strings outside the training set over all of them.
C4_NoveltyIsNovelOverUnique ==
    (/\ CallHasReturned
     /\ ValidCount(inp.molecules) > 0
     /\ train_smiles.present /\ train_smiles.list # <<>>) =>
        RatioEq(out.validity_dict.novelty,
                Cardinality(Novel(UniqueSmiles(inp.molecules), train_smiles)),
                Cardinality(UniqueSmiles(inp.molecules)))

---------------------------------------------------------------------------
(* C5 *)

NoTraining == ~train_smiles.present \/ train_smiles.list = <<>>

\* C5: with the training set empty or absent, evaluating a batch with at
\* least one valid molecule raises nothing and reports novelty 1, from the
\* top-level call and from compute_novelty alike.
C5_NoTrainingNoveltyOne ==
    /\ (/\ CallDone /\ NoTraining
        /\ AllStructured(inp.molecules) /\ ValidCount(inp.molecules) > 0) =>
            (pc = "returned" /\ RatioEq(out.validity_dict.novelty, 1, 1))
    /\ (/\ pc \in {"returned", "raised"} /\ inp.op = "compute_novelty"
        /\ NoTraining /\ inp.unique # {}) =>
            (pc = "returned" /\ RatioEq(out.value, 1, 1))

---------------------------------------------------------------------------
(* C6 *)

\* the sum of the error-category counts compute_validity returned
CategoryTotal(error_message) ==
    LET S[cs \in SUBSET ErrorCategories] ==
            IF cs = {} THEN 0
            ELSE LET c == CHOOSE x \in cs : TRUE
                 IN  error_message[c] + S[cs \ {c}]
    IN  S[ErrorCategories]

\* C6 as claimed: after compute_validity every input molecule has fed exactly
\* one error-category counter, so the counts sum to the number of inputs.
C6_EveryMoleculeCounted ==
    ValidityHasReturned => CategoryTotal(out.error_message) = Len(inp.generated)

\* C6 as amended: every input molecule that has a structural representation
\* feeds exactly one counter and a molecule without one feeds none, so the
\* counts sum to the number of molecules with rdkit_mol not None; the
\* disconnected count is the number of molecules whose decomposition gave
\* more than one fragment, and "passed" the number of valid molecules.
C6_StructuredMoleculesCounted ==
    ValidityHasReturned =>
        /\ CategoryTotal(out.error_message)
             = CountIn(inp.generated, LAMBDA m : m.rdkit_mol)
        /\ \A i \in 1..Len(inp.generated) :
             (out.categories[i] \in ErrorCategories) = inp.generated[i].rdkit_mol
        /\ out.error_message["disconnected"]
             = CountIn(inp.generated,
                       LAMBDA m : m.rdkit_mol /\ m.frags_exc = "none" /\ m.num_frags > 1)
        /\ out.error_message["passed"] = out.n_passed

\* a batch with a molecule without rdkit_mol next to a disconnected and a
\* passing one has been filtered
C6_Witness ==
    /\ ValidityHasReturned
    /\ \E i \in 1..Len(inp.generated) : ~inp.generated[i].rdkit_mol
    /\ out.error_message["passed"] + out.error_message["disconnected"] > 0
    /\ CategoryTotal(out.error_message) < Len(inp.generated)

---------------------------------------------------------------------------
(* C7 *)

\* C7: no single bad molecule aborts the batch: the top-level call on a
\* non-empty batch completes without an exception.  Stated for the batches
\* whose adjacency matrices can all be computed and for an instance that has
\* training smiles, where it already fails.
C7_NoBadMoleculeAborts ==
    (/\ CallDone /\ Len(inp.molecules) > 0 /\ train_smiles.present
     /\ \A i \in 1..Len(inp.molecules) : ~inp.molecules[i].adj_exc) =>
        pc = "returned"

---------------------------------------------------------------------------
(* C8 *)

\* a molecule that is one fragment and that sanitization accepts
SingleSanitizable(m) ==
    /\ m.rdkit_mol /\ ~m.adj_exc /\ m.frags_exc = "none"
    /\ m.num_frags = 1 /\ m.sanitize_exc = "none"

\* C8: the checks apply in the order disconnected, sanitization failure,
\* implicit hydrogens, bond-order change, radicals, and the first that fires
\* decides; in strict mode a single-fragment sanitizable molecule (without
\* implicit hydrogens) is "wrong_bo" exactly when a bond order changed by
\* more than 0.5 (bo_change2 > 1) and "radicals" exactly when none did and
\* it has unpaired electrons; in non-strict mode neither check excludes.
C8_CheckOrderAndStrictMode ==
    ValidityHasReturned =>
        \A i \in 1..Len(inp.generated) :
            LET m == inp.generated[i]
                c == out.categories[i]
            IN  (m.rdkit_mol /\ m.frags_exc = "none") =>
                  /\ (m.num_frags > 1) => c = "disconnected"
                  /\ (m.num_frags = 1 /\ m.sanitize_exc # "none") =>
                        c \in {"wrong_atom_valence", "kekulization", "other"}
                  /\ (SingleSanitizable(m) /\ m.implicit_hs > 0) =>
                        c = "implicit_hydrogens"
                  /\ (SingleSanitizable(m) /\ m.implicit_hs = 0 /\ inp.strict) =>
                        /\ (c = "wrong_bo") = (m.bo_change2 > 1)
                        /\ (c = "radicals") = (m.bo_change2 <= 1 /\ m.radicals > 0)
                        /\ (c = "passed") = (m.bo_change2 <= 1 /\ m.radicals = 0)
                  /\ (SingleSanitizable(m) /\ m.implicit_hs = 0 /\ ~inp.strict) =>
                        c = "passed"

\* strict mode has met a molecule whose bond order changed by 1 and that has
\* radicals, and one with a change of 0.5 and radicals
C8_Witness ==
    /\ ValidityHasReturned /\ inp.strict
    /\ \E i, j \in 1..Len(inp.generated) :
        /\ SingleSanitizable(inp.generated[i]) /\ inp.generated[i].implicit_hs = 0
        /\ inp.generated[i].bo_change2 = 2 /\ inp.generated[i].radicals > 0
        /\ out.categories[i] = "wrong_bo"
        /\ SingleSanitizable(inp.generated[j]) /\ inp.generated[j].implicit_hs = 0
        /\ inp.generated[j].bo_change2 = 1 /\ inp.generated[j].radicals > 0
        /\ out.categories[j] = "radicals"

---------------------------------------------------------------------------
(* C9 *)

\* a molecule that is a single connected component
SingleComponent(m) == m.rdkit_mol /\ m.frags_exc = "none" /\ m.num_frags = 1

\* C9: the connected-components value compute_validity returns is
\* 100 * (input molecules that are a single connected component) / (input
\* molecules), also for batches with molecules without a structural
\* representation or whose fragment decomposition fails.
C9_ConnectedIsSingleComponentShare ==
    ValidityHasReturned =>
        RatioEq(out.connected_components,
                100 * CountIn(inp.generated, SingleComponent), Len(inp.generated))

---------------------------------------------------------------------------
(* C10 *)

\* C10: the call returns the smiles list and the molecule list exactly when
\* return_molecules was passed and at least one molecule is valid; otherwise
\* both are None; never one without the other.
C10_MoleculesReturnedIffAskedAndValid ==
    CallHasReturned =>
        /\ (~out.all_generated_smiles.is_none)
             = (inp.return_molecules /\ ValidCount(inp.molecules) > 0)
        /\ out.all_generated_smiles.is_none = out.valid_molecules.is_none
        /\ (~out.valid_molecules.is_none) =>
             /\ Range(out.all_generated_smiles.value) = UniqueSmiles(inp.molecules)
             /\ Len(out.valid_molecules.value) = Len(out.all_generated_smiles.value)

\* both lists were returned by a call that asked for them
C10_Witness ==
    /\ CallHasReturned /\ inp.return_molecules
    /\ ~out.all_generated_smiles.is_none /\ ~out.valid_molecules.is_none
    /\ Len(out.valid_molecules.value) > 0

---------------------------------------------------------------------------
(* C11 *)

\* the molecules compute_statistics receives: the valid ones
ValidMolecules(molecules) == PassedMolecules(molecules, Categories(molecules, TRUE))

\* the call reached compute_statistics and returned its statistics
StatisticsReturned == CallHasReturned /\ out.statistics_dict.present

\* C11: with bonds present the angle distance is computed exactly when
\* sparsity_level >= 0.7, and below 0.7 the reported sampling/AnglesW1 is a
\* sentinel that no computed distance can equal (distances are >= 0).
C11_AngleSentinelBelowCutoff ==
    (StatisticsReturned /\ ValidMolecules(inp.molecules)[1].bond_types) =>
        /\ (inp.ext.sparsity >= SparsityCutoff) =>
                RatioEq(out.statistics_dict.AnglesW1, inp.ext.dist, 1)
        /\ (inp.ext.sparsity < SparsityCutoff) =>
                ~RatioGe(out.statistics_dict.AnglesW1, 0, 1)

---------------------------------------------------------------------------
(* C12 *)

\* C12: when the valid molecules carry no charges sampling/ChargeW1 is -1.0,
\* when they carry no bond types EdgeTypesTV, ValencyW1, BondLengthsW1,
\* AnglesW1 and DihedralsW1 are all -1.0; the node-count and atom-type
\* distances are still computed, and the call that reached
\* compute_statistics on an instance with training smiles returns.
C12_MissingDataGivesSentinel ==
    LET valid == ValidMolecules(inp.molecules)
        log == out.statistics_dict
    IN  /\ (CallDone /\ train_smiles.present /\ AllStructured(inp.molecules)
            /\ Len(valid) > 0) => StatisticsReturned
        /\ StatisticsReturned =>
            /\ (\A i \in 1..Len(valid) : ~valid[i].charges) => log.ChargeW1 = Sentinel
            /\ (\A i \in 1..Len(valid) : ~valid[i].bond_types) =>
                  /\ log.EdgeTypesTV = Sentinel /\ log.ValencyW1 = Sentinel
                  /\ log.BondLengthsW1 = Sentinel /\ log.AnglesW1 = Sentinel
                  /\ log.DihedralsW1 = Sentinel
            /\ RatioEq(log.NumNodesW1, inp.ext.dist, 1)
            /\ RatioEq(log.AtomTypesTV, inp.ext.dist, 1)

\* statistics were returned for valid molecules that carry charges and no
\* bond types, with a positive node-count distance
C12_Witness ==
    /\ StatisticsReturned
    /\ \A i \in 1..Len(ValidMolecules(inp.molecules)) :
          /\ ~ValidMolecules(inp.molecules)[i].bond_types
          /\ ValidMolecules(inp.molecules)[i].charges
    /\ out.statistics_dict.EdgeTypesTV = Sentinel
    /\ out.statistics_dict.ChargeW1 # Sentinel
    /\ inp.ext.dist > 0

---------------------------------------------------------------------------
(* C13 *)

\* C13: after a call that had valid molecules, the training reference subset
\* is the entire corpus when the number of generated (valid, deduplicated)
\* smiles exceeds the corpus size, and otherwise the sample of exactly that
\* many corpus entries, without repetition, that the seed 42 decides; its
\* size never exceeds the corpus size.
C13_TrainSubsetChoice ==
    StatisticsReturned =>
        LET g == Cardinality(UniqueSmiles(inp.molecules))
            corpus == train_smiles.list
            subset == train_subset.value
        IN  /\ ~train_subset.is_none
            /\ number_samples = g
            /\ (g > Len(corpus)) => subset = corpus
            /\ (g <= Len(corpus)) =>
                  /\ Len(subset) = g
                  /\ \A i, j \in 1..Len(subset) : subset[i] = subset[j] => i = j
                  /\ subset = get_random_subset(corpus, g, SubsetSeed)
            /\ Range(subset) \subseteq Range(corpus)
            /\ Len(subset) <= Len(corpus)

\* a call sampled a proper part of the corpus
C13_Witness ==
    /\ StatisticsReturned
    /\ ~train_subset.is_none
    /\ Len(train_subset.value) = Cardinality(UniqueSmiles(inp.molecules))
    /\ Len(train_subset.value) < Len(train_smiles.list)

---------------------------------------------------------------------------
(* C14 *)

\* one of the two pairwise functions has finished in its parallel mode
ParallelDone ==
    /\ pc \in {"returned", "raised"}
    /\ inp.op \in {"get_similarity_with_train", "get_diversity"}
    /\ inp.parallel

\* C14: for every input and every order in which the pool workers complete,
\* the parallel mode of get_similarity_with_train and of get_diversity gives
\* what the sequential mode gives on the same input.  Stated for inputs of
\* two or more fingerprints, where it already fails.
C14_ParallelEqualsSequential ==
    (ParallelDone /\ Len(inp.fps) >= 2) =>
        out = IF inp.op = "get_diversity" THEN get_diversity(inp.fps)
              ELSE get_similarity_with_train(inp.fps, inp.train_fps)

---------------------------------------------------------------------------
(* C17 *)

BulkDone == pc = "returned" /\ inp.op = "get_bulk_diversity"

\* the sum, in halves, of the similarities of every ordered pair of
\* fingerprints at different indices
OtherPairsSum(fps) ==
    LET S[k \in 0..(Len(fps) * Len(fps))] ==
            IF k = 0 THEN 0
            ELSE LET i == ((k - 1) \div Len(fps)) + 1
                     j == ((k - 1) % Len(fps)) + 1
                 IN  S[k - 1] + (IF i = j THEN 0
                                 ELSE TanimotoSimilarity(fps[i], fps[j]))
    IN  S[Len(fps) * Len(fps)]

\* C17: get_bulk_diversity reports 1 minus the mean of the n*(n-1)
\* similarities of every fingerprint with the fingerprints at the other
\* indices (equal ones included), a value in [0,1] for n >= 2, and an
\* undefined value (nan) for a single fingerprint.
C17_BulkDiversity ==
    BulkDone =>
        LET n == Len(inp.fps)
        IN  /\ (n >= 2) =>
                /\ RatioEq(out.value, 2 * n * (n - 1) - OtherPairsSum(inp.fps),
                           2 * n * (n - 1))
                /\ RatioGe(out.value, 0, 1) /\ RatioLe(out.value, 1, 1)
            /\ (n = 1) => ~Defined(out.value)

\* the diversity of a list that holds the same fingerprint twice
C17_Witness ==
    /\ BulkDone
    /\ Len(inp.fps) = 2 /\ inp.fps[1] = inp.fps[2]
    /\ RatioEq(out.value, 0, 1)

---------------------------------------------------------------------------
(* C15 *)

\* C15: a top-level call leaves every input molecule record, its rdkit_mol
\* included, as it was handed in.
C15_InputMoleculesUnchanged ==
    CallDone => caller_molecules = inp.molecules

---------------------------------------------------------------------------
(* C16 *)

\* a method has finished, by a return or by an exception
Finished(op) == pc \in {"returned", "raised"} /\ inp.op = op

\* C16: with zero input molecules compute_validity and the top-level call
\* fail with a division by zero and produce no validity and no
\* connected-components value (with molecules they never fail that way);
\* compute_sanitize_validity on the empty input returns the sentinel -1.0.
C16_EmptyInput ==
    /\ Finished("compute_validity") =>
          /\ (out.exc = "ZeroDivisionError") = (Len(inp.generated) = 0)
          /\ (Len(inp.generated) = 0) =>
                /\ pc = "raised"
                /\ ~Defined(out.connected_components)
                /\ acc["validity_metric"] = EmptyMean
    /\ Finished("__call__") =>
          /\ (out.exc = "ZeroDivisionError") = (Len(inp.molecules) = 0)
          /\ (Len(inp.molecules) = 0) =>
                /\ pc = "raised"
                /\ ~Defined(out.validity_dict.validity)
                /\ ~Defined(out.statistics_dict.connected_components)
                /\ acc["validity_metric"] = EmptyMean
    /\ (Finished("compute_sanitize_validity") /\ Len(inp.generated) = 0) =>
          pc = "returned" /\ out.value = Sentinel

\* compute_validity has failed on the empty list
C16_Witness ==
    /\ Finished("compute_validity")
    /\ Len(inp.generated) = 0
    /\ pc = "raised" /\ out.exc = "ZeroDivisionError"

---------------------------------------------------------------------------
(* C18 *)

\* C18: in any sequence of top-level calls a reset happens exactly at the
\* end of the calls whose batch had at least one valid molecule, and a call
\* whose batch had none reports the running mean its accumulators hold
\* (validity = accumulated valid count / accumulated batch sizes).
C18_ResetExactlyAfterValidBatch ==
    (CallDone /\ Len(inp.molecules) > 0) =>
        /\ AllReset = (ValidCount(inp.molecules) > 0)
        /\ (pc = "returned" /\ ValidCount(inp.molecules) = 0) =>
              /\ RatioEq(out.validity_dict.validity,
                         acc["validity_metric"].sum, acc["validity_metric"].weight)
              /\ RatioEq(out.stability_dict.mol_stable,
                         acc["mol_stable"].sum, acc["mol_stable"].weight)

---------------------------------------------------------------------------
(* C19 *)

SplitDone == pc = "returned" /\ inp.op = "split_list"

\* the chunks laid end to end
Concatenation(chunks) ==
    LET F[k \in 0..Len(chunks)] == IF k = 0 THEN <<>> ELSE F[k - 1] \o chunks[k]
    IN  F[Len(chunks)]

\* C19: for num_chunks >= 1 split_list returns exactly num_chunks contiguous
\* chunks whose concatenation is data, whose lengths differ by at most 1,
\* the first len(data) mod num_chunks of them being the longer ones; when
\* num_chunks exceeds len(data) the chunks after the first len(data) are
\* empty.
C19_SplitList ==
    SplitDone =>
        LET chunks == out.chunks
            n == Len(inp.data)
            k == inp.num_chunks
        IN  /\ Len(chunks) = k
            /\ Concatenation(chunks) = inp.data
            /\ \A i, j \in 1..k : Len(chunks[i]) - Len(chunks[j]) <= 1
            /\ \A i \in 1..k :
                  Len(chunks[i]) = (n \div k) + (IF i <= n % k THEN 1 ELSE 0)
            /\ (k > n) => \A i \in 1..k : (chunks[i] = <<>>) = (i > n)

\* a list that does not divide evenly has been split
C19_Witness ==
    /\ SplitDone
    /\ Len(inp.data) > inp.num_chunks
    /\ Len(inp.data) % inp.num_chunks # 0
    /\ Len(out.chunks[1]) > Len(out.chunks[inp.num_chunks])

====
